---- MODULE Spec2Model ----
(***************************************************************************)
(* A model of repo.go of the git module: the repository operations that    *)
(* build a command line and hand it to the git subprocess, the opening of  *)
(* a repository handle, and the parsing of a log output into commits.      *)
(*                                                                         *)
(* A Go string or byte slice is a sequence of one-character strings, so    *)
(* that splitting, joining and taking the directory of a path are          *)
(* computed.  An optional value (a pointer that may be nil) is a sequence  *)
(* of length 0 (nil) or 1.                                                 *)
(***************************************************************************)
EXTENDS Integers, Sequences, FiniteSets, TLC

VARIABLES
    fs,      \* the directories of the file system, each a sequence of components
    repo,    \* the repository handle last opened: <<>> or <<[Path, commitCache, tagCache]>>
    call,    \* the operation called last and its arguments
    trace,   \* what that call did, in order: directory creations, lookups, subprocess runs
    result,  \* what that call returned: [err, val]
    proc,    \* the subprocess of a call in progress (stepwise runner only)
    clock    \* the time that subprocess has been running

vars == <<fs, repo, call, trace, result, proc, clock>>

---------------------------------------------------------------------------
(* Bounds *)

MaxTimeout == 2
MaxLogLen == 3
MaxClock == 3

---------------------------------------------------------------------------
(* Strings *)

NL == "\n"
Slash == "/"
Dot == <<".">>

SInit == <<"i", "n", "i", "t">>
SClone == <<"c", "l", "o", "n", "e">>
SPull == <<"p", "u", "l", "l">>
SFetch == <<"f", "e", "t", "c", "h">>
SRebase == <<"r", "e", "b", "a", "s", "e">>
SPush == <<"p", "u", "s", "h">>
SReset == <<"r", "e", "s", "e", "t">>
SCheckout == <<"c", "h", "e", "c", "k", "o", "u", "t">>

FBare == <<"-", "-", "b", "a", "r", "e">>
FMirror == <<"-", "-", "m", "i", "r", "r", "o", "r">>
FQuiet == <<"-", "-", "q", "u", "i", "e", "t">>
FAll == <<"-", "-", "a", "l", "l">>
FPrune == <<"-", "-", "p", "r", "u", "n", "e">>
FForce == <<"-", "-", "f", "o", "r", "c", "e">>
FHard == <<"-", "-", "h", "a", "r", "d">>

GitBin == <<"g", "i", "t">>

\* The index of the first sep in s, 0 when there is none.
IndexOf(s, sep) ==
    IF \E i \in 1..Len(s) : s[i] = sep
    THEN CHOOSE i \in 1..Len(s) : s[i] = sep /\ \A j \in 1..(i - 1) : s[j] # sep
    ELSE 0

\* The index of the last sep in s, 0 when there is none.
LastIndexOf(s, sep) ==
    IF \E i \in 1..Len(s) : s[i] = sep
    THEN CHOOSE i \in 1..Len(s) : s[i] = sep /\ \A j \in (i + 1)..Len(s) : s[j] # sep
    ELSE 0

RECURSIVE SplitDropEmpty(_, _)
\* Split dropping the empty segments, as a line scanner would.
SplitDropEmpty(s, sep) ==
    LET i == IndexOf(s, sep)
        head == IF i = 0 THEN s ELSE SubSeq(s, 1, i - 1)
        rest == IF i = 0 THEN <<>> ELSE SplitDropEmpty(SubSeq(s, i + 1, Len(s)), sep)
    IN  (IF head = <<>> THEN <<>> ELSE <<head>>) \o rest

RECURSIVE Split(_, _)
\* bytes.Split(s, sep) for a one-byte sep: n separators cut s into n + 1
\* segments, the empty ones included.
Split(s, sep) ==
    LET i == IndexOf(s, sep)
    IN  IF i = 0
        THEN <<s>>
        ELSE <<SubSeq(s, 1, i - 1)>> \o Split(SubSeq(s, i + 1, Len(s)), sep)

---------------------------------------------------------------------------
(* Paths and the file system *)

\* The working directory of the process and the regular files of the file
\* system, as component sequences.
Cwd == << <<"w">> >>
Files == {<< <<"w">>, <<"f">> >>}

IsRooted(p) == Len(p) > 0 /\ p[1] = Slash

\* The components of a path: its segments between slashes, without the
\* empty ones and without ".".
Components(p) == SelectSeq(Split(p, Slash), LAMBDA c : c # <<>> /\ c # Dot)

RECURSIVE JoinComponents(_)
JoinComponents(cs) ==
    IF cs = <<>> THEN <<>>
    ELSE IF Len(cs) = 1 THEN cs[1]
    ELSE cs[1] \o <<Slash>> \o JoinComponents(Tail(cs))

\* path.Clean on a path without ".." elements.
Clean(p) ==
    LET cs == Components(p)
    IN  IF IsRooted(p) THEN <<Slash>> \o JoinComponents(cs)
        ELSE IF cs = <<>> THEN Dot
        ELSE JoinComponents(cs)

\* path.Dir: everything up to the last slash, cleaned.
PathDir(p) == Clean(SubSeq(p, 1, LastIndexOf(p, Slash)))

\* The directory a path names, from the root: a relative path is taken
\* from the working directory.
Resolve(p) == IF IsRooted(p) THEN Components(p) ELSE Cwd \o Components(p)

\* filepath.Abs of a path, when the working directory can be read.
Abs(p) == <<Slash>> \o JoinComponents(Resolve(p))

Prefix(cs, k) == SubSeq(cs, 1, k)
Ancestors(cs) == {Prefix(cs, k) : k \in 0..Len(cs)}

\* How far os.MkdirAll(p) can get: the number k of leading components of p
\* it finds or creates.  It passes no regular file, and it stops early only
\* at a directory that is not there yet (which it then fails to create).
MkdirReach(dirs, p) ==
    LET cs == Resolve(p)
    IN  {k \in 0..Len(cs) :
            /\ \A j \in 0..k : Prefix(cs, j) \notin Files
            /\ k = Len(cs) \/ Prefix(cs, k + 1) \notin dirs}

ErrNil == "nil"
ErrMkdir == "mkdir failed"
ErrGetwd == "getwd failed"
ErrNotFound == "no such file or directory"

\* os.MkdirAll(p, os.ModePerm) getting as far as k components.
MkdirAll(dirs, p, k) ==
    LET cs == Resolve(p)
        ok == k = Len(cs)
    IN  [fs |-> dirs \cup {Prefix(cs, j) : j \in 0..k},
         err |-> IF ok THEN ErrNil ELSE ErrMkdir,
         event |-> [kind |-> "mkdirall", path |-> p, ok |-> ok]]

isDir(dirs, p) == Resolve(p) \in dirs

---------------------------------------------------------------------------
(* The command builder and the subprocess runner *)

NoTimeout == -1

NewCommand(args) == [name |-> GitBin, args |-> args]
AddArguments(cmd, args) == [cmd EXCEPT !.args = @ \o args]

\* How a subprocess run with the given timeout can end.
RunOutcomes(timeout) ==
    {"ok", "not runnable", "exit status 1"}
        \cup (IF timeout > 0 THEN {"timeout"} ELSE {})

\* One run of the subprocess: the working directory (<<>>: the current
\* one), the timeout handed over and how the run ended.
RunInDirTimeout(cmd, timeout, dir, out) ==
    [kind |-> "run", name |-> cmd.name, args |-> cmd.args,
     dir |-> dir, timeout |-> timeout, out |-> out]
RunInDir(cmd, dir, out) == RunInDirTimeout(cmd, NoTimeout, dir, out)
RunTimeout(cmd, timeout, out) == RunInDirTimeout(cmd, timeout, <<>>, out)

\* The error a run returns.
RunErr(ev) == IF ev.out = "ok" THEN ErrNil ELSE ev.out

---------------------------------------------------------------------------
(* The operations of repo.go.  Each is given, besides its arguments, what    *)
(* the environment decides: how far a directory creation gets (k) and how   *)
(* the subprocess ends (out).  Each yields the file system it leaves, what  *)
(* it did and the error it returns.                                         *)

InitCmd(bare) ==
    LET c0 == NewCommand(<<SInit>>)
    IN  IF bare THEN AddArguments(c0, <<FBare>>) ELSE c0

\* InitRepository returning the error of os.MkdirAll instead of dropping it.
InitRepositoryMkdirErr(dirs, repoPath, bare, k, out) ==
    LET mk == MkdirAll(dirs, repoPath, k)
        ev == RunInDir(InitCmd(bare), repoPath, out)
    IN  IF mk.err # ErrNil
        THEN [fs |-> mk.fs, trace |-> <<mk.event>>, err |-> mk.err]
        ELSE [fs |-> mk.fs, trace |-> <<mk.event, ev>>, err |-> RunErr(ev)]

\* The error of os.MkdirAll is dropped: the subprocess runs whatever it was.
InitRepository(dirs, repoPath, bare, k, out) ==
    LET mk == MkdirAll(dirs, repoPath, k)
        ev == RunInDir(InitCmd(bare), repoPath, out)
    IN  [fs |-> mk.fs, trace |-> <<mk.event, ev>>, err |-> RunErr(ev)]

newObjectCache == [id \in {} |-> <<>>]

\* OpenRepository without the isDir test.
OpenRepositoryNoDirCheck(dirs, repoPath, absOk) ==
    IF ~absOk THEN [val |-> <<>>, trace |-> <<>>, err |-> ErrGetwd]
    ELSE [val |-> <<[Path |-> Abs(repoPath),
                     commitCache |-> newObjectCache,
                     tagCache |-> newObjectCache]>>,
          trace |-> <<>>, err |-> ErrNil]

\* absOk: whether filepath.Abs could make the path absolute.
OpenRepository(dirs, repoPath, absOk) ==
    IF ~absOk THEN [val |-> <<>>, trace |-> <<>>, err |-> ErrGetwd]
    ELSE IF ~isDir(dirs, Abs(repoPath))
    THEN [val |-> <<>>, trace |-> <<>>, err |-> ErrNotFound]
    ELSE [val |-> <<[Path |-> Abs(repoPath),
                     commitCache |-> newObjectCache,
                     tagCache |-> newObjectCache]>>,
          trace |-> <<>>, err |-> ErrNil]

\* CloneCmd with --bare added before --mirror.
CloneCmdBareFirst(from, to, opts) ==
    LET c0 == NewCommand(<<SClone>>)
        c1 == IF opts.Bare THEN AddArguments(c0, <<FBare>>) ELSE c0
        c2 == IF opts.Mirror THEN AddArguments(c1, <<FMirror>>) ELSE c1
        c3 == IF opts.Quiet THEN AddArguments(c2, <<FQuiet>>) ELSE c2
    IN  AddArguments(c3, <<from, to>>)

CloneCmd(from, to, opts) ==
    LET c0 == NewCommand(<<SClone>>)
        c1 == IF opts.Mirror THEN AddArguments(c0, <<FMirror>>) ELSE c0
        c2 == IF opts.Bare THEN AddArguments(c1, <<FBare>>) ELSE c1
        c3 == IF opts.Quiet THEN AddArguments(c2, <<FQuiet>>) ELSE c2
    IN  AddArguments(c3, <<from, to>>)

\* CloneTimeout normalizing only the negative timeouts.
CloneTimeoutNegativeOnly(opts) == IF opts.Timeout < 0 THEN NoTimeout ELSE opts.Timeout

CloneTimeout(opts) == IF opts.Timeout <= 0 THEN NoTimeout ELSE opts.Timeout

\* Clone dropping the error of os.MkdirAll, as InitRepository does.
CloneIgnoringMkdir(dirs, from, to, opts, k, out) ==
    LET toDir == PathDir(to)
        mk == MkdirAll(dirs, toDir, k)
        ev == RunTimeout(CloneCmd(from, to, opts), CloneTimeout(opts), out)
    IN  [fs |-> mk.fs, trace |-> <<mk.event, ev>>, err |-> RunErr(ev)]

Clone(dirs, from, to, opts, k, out) ==
    LET toDir == PathDir(to)
        mk == MkdirAll(dirs, toDir, k)
        ev == RunTimeout(CloneCmd(from, to, opts), CloneTimeout(opts), out)
    IN  IF mk.err # ErrNil
        THEN [fs |-> mk.fs, trace |-> <<mk.event>>, err |-> mk.err]
        ELSE [fs |-> mk.fs, trace |-> <<mk.event, ev>>, err |-> RunErr(ev)]

PullCmd(opts) ==
    LET c0 == NewCommand(<<SPull>>)
    IN  IF opts.All THEN AddArguments(c0, <<FAll>>) ELSE c0

PullTimeout(opts) == IF opts.Timeout <= 0 THEN NoTimeout ELSE opts.Timeout

Pull(dirs, repoPath, opts, out) ==
    LET ev == RunInDirTimeout(PullCmd(opts), PullTimeout(opts), repoPath, out)
    IN  [fs |-> dirs, trace |-> <<ev>>, err |-> RunErr(ev)]

FetchCmd(opts) ==
    LET c0 == NewCommand(<<SFetch>>)
    IN  IF opts.Prune THEN AddArguments(c0, <<FPrune>>) ELSE c0

FetchTimeout(opts) == IF opts.Timeout <= 0 THEN NoTimeout ELSE opts.Timeout

Fetch(dirs, repoPath, opts, out) ==
    LET ev == RunInDirTimeout(FetchCmd(opts), FetchTimeout(opts), repoPath, out)
    IN  [fs |-> dirs, trace |-> <<ev>>, err |-> RunErr(ev)]

RebaseCmd(opts) ==
    LET c0 == NewCommand(<<SRebase>>)
    IN  IF opts.Branch # <<>> THEN AddArguments(c0, <<opts.Branch>>) ELSE c0

Rebase(dirs, repoPath, opts, out) ==
    LET ev == RunInDir(RebaseCmd(opts), repoPath, out)
    IN  [fs |-> dirs, trace |-> <<ev>>, err |-> RunErr(ev)]

PushCmd(remote, branch, opts) ==
    LET c0 == NewCommand(<<SPush>>)
        c1 == IF opts.Force THEN AddArguments(c0, <<FForce>>) ELSE c0
        c2 == AddArguments(c1, <<remote>>)
    IN  AddArguments(c2, <<branch>>)

Push(dirs, repoPath, remote, branch, opts, out) ==
    LET ev == RunInDir(PushCmd(remote, branch, opts), repoPath, out)
    IN  [fs |-> dirs, trace |-> <<ev>>, err |-> RunErr(ev)]

ResetCmd(hard, revision) ==
    LET c0 == NewCommand(<<SReset>>)
        c1 == IF hard THEN AddArguments(c0, <<FHard>>) ELSE c0
    IN  AddArguments(c1, <<revision>>)

ResetHEAD(dirs, repoPath, hard, revision, out) ==
    LET ev == RunInDir(ResetCmd(hard, revision), repoPath, out)
    IN  [fs |-> dirs, trace |-> <<ev>>, err |-> RunErr(ev)]

CheckoutCmd(version) == NewCommand(<<SCheckout, version>>)

Checkout(dirs, repoPath, version, out) ==
    LET ev == RunInDir(CheckoutCmd(version), repoPath, out)
    IN  [fs |-> dirs, trace |-> <<ev>>, err |-> RunErr(ev)]

---------------------------------------------------------------------------
(* Commit lookup through the handle's cache, and log parsing *)

ErrNotExist == "object does not exist"

Commit(id) == [ID |-> id]

CacheGet(cache, id) == IF id \in DOMAIN cache THEN <<cache[id]>> ELSE <<>>
CacheSet(cache, id, obj) ==
    [x \in DOMAIN cache \cup {id} |-> IF x = id THEN obj ELSE cache[x]]

\* GetCommit that never stores what it resolved.
GetCommitNoStore(cache, id, resolves) ==
    LET hit == CacheGet(cache, id)
        look == [kind |-> "lookup", id |-> id]
    IN  IF hit # <<>>
        THEN [val |-> hit, err |-> ErrNil, cache |-> cache, trace |-> <<look>>]
        ELSE IF resolves
        THEN [val |-> <<Commit(id)>>, err |-> ErrNil, cache |-> cache,
              trace |-> <<look, [kind |-> "resolve", id |-> id, out |-> "ok"]>>]
        ELSE [val |-> <<>>, err |-> ErrNotExist, cache |-> cache,
              trace |-> <<look, [kind |-> "resolve", id |-> id,
                                 out |-> "exit status 1"]>>]

\* repo.GetCommit(id): the cached commit when there is one; otherwise one
\* subprocess run, which resolves the identifier or not, and whose commit
\* is cached.
GetCommit(cache, id, resolves) ==
    LET hit == CacheGet(cache, id)
        look == [kind |-> "lookup", id |-> id]
    IN  IF hit # <<>>
        THEN [val |-> hit, err |-> ErrNil, cache |-> cache, trace |-> <<look>>]
        ELSE IF resolves
        THEN [val |-> <<Commit(id)>>, err |-> ErrNil,
              cache |-> CacheSet(cache, id, Commit(id)),
              trace |-> <<look, [kind |-> "resolve", id |-> id, out |-> "ok"]>>]
        ELSE [val |-> <<>>, err |-> ErrNotExist, cache |-> cache,
              trace |-> <<look, [kind |-> "resolve", id |-> id,
                                 out |-> "exit status 1"]>>]

RECURSIVE ParseLoopPartial(_, _, _, _, _, _)
\* The loop returning, with the error, the list built so far.
ParseLoopPartial(parts, i, cache, l, tr, failAt) ==
    IF i > Len(parts)
    THEN [val |-> <<l>>, err |-> ErrNil, cache |-> cache, trace |-> tr]
    ELSE LET g == GetCommit(cache, parts[i], i # failAt)
         IN  IF g.err # ErrNil
             THEN [val |-> <<l>>, err |-> g.err, cache |-> g.cache,
                   trace |-> tr \o g.trace]
             ELSE ParseLoopPartial(parts, i + 1, g.cache, Append(l, g.val[1]),
                                   tr \o g.trace, failAt)

RECURSIVE ParseLoop(_, _, _, _, _, _)
\* The loop over the segments, from segment i on: l is the list so far,
\* tr what was done so far, failAt the segment whose subprocess run (if it
\* needs one) does not resolve.
ParseLoop(parts, i, cache, l, tr, failAt) ==
    IF i > Len(parts)
    THEN [val |-> <<l>>, err |-> ErrNil, cache |-> cache, trace |-> tr]
    ELSE LET g == GetCommit(cache, parts[i], i # failAt)
         IN  IF g.err # ErrNil
             THEN [val |-> <<>>, err |-> g.err, cache |-> g.cache,
                   trace |-> tr \o g.trace]
             ELSE ParseLoop(parts, i + 1, g.cache, Append(l, g.val[1]),
                            tr \o g.trace, failAt)

\* The parse without its test for an empty output.
parseWithoutEmptyTest(cache, logs, failAt) ==
    ParseLoop(Split(logs, NL), 1, cache, <<>>, <<>>, failAt)

parsePrettyFormatLogToList(cache, logs, failAt) ==
    IF Len(logs) = 0
    THEN [val |-> << <<>> >>, err |-> ErrNil, cache |-> cache, trace |-> <<>>]
    ELSE ParseLoop(Split(logs, NL), 1, cache, <<>>, <<>>, failAt)

---------------------------------------------------------------------------
(* Inputs *)

SeqsUpTo(S, n) == UNION {[1..k -> S] : k \in 0..n}

RepoPaths == {<<"a">>, <<"a", "/", "b">>, <<"f">>, <<"/", "w", "/", "a">>}
WorkPaths == {<<"a">>, <<"/", "w", "/", "a">>}
ToPaths == {<<"a", "/", "b">>, <<"a", "/", "b", "/">>, <<"b">>,
            <<"f", "/", "x">>}
Urls == {<<"u">>}
Remotes == {<<"o">>}
Refs == {<<>>, <<"m">>}
Timeouts == (0 - MaxTimeout)..MaxTimeout
Ids == SeqsUpTo({"a"}, MaxLogLen)
Logs == SeqsUpTo({"a", NL}, MaxLogLen)

CloneRepoOptions ==
    [Mirror : BOOLEAN, Bare : BOOLEAN, Quiet : BOOLEAN, Timeout : Timeouts]
PullRemoteOptions == [All : BOOLEAN, Timeout : Timeouts]
FetchRemoteOptions == [Prune : BOOLEAN, Timeout : Timeouts]
RebaseOptions == [Branch : Refs]
PushOptions == [Force : BOOLEAN]

---------------------------------------------------------------------------
(* The state machine: one action per operation *)

NoCall == [op |-> "none"]

Init ==
    /\ fs = Ancestors(Cwd)
    /\ repo = <<>>
    /\ call = NoCall
    /\ trace = <<>>
    /\ result = [err |-> ErrNil, val |-> <<>>]
    /\ proc = "idle"
    /\ clock = 0

\* What an operation that returns only an error leaves behind.
Done(c, r) ==
    /\ call' = c
    /\ fs' = r.fs
    /\ trace' = r.trace
    /\ result' = [err |-> r.err, val |-> <<>>]
    /\ UNCHANGED <<repo, proc, clock>>

InitRepositoryAct ==
    \E repoPath \in RepoPaths, bare \in BOOLEAN :
    \E k \in MkdirReach(fs, repoPath), out \in RunOutcomes(NoTimeout) :
        Done([op |-> "InitRepository", repoPath |-> repoPath, bare |-> bare],
             InitRepository(fs, repoPath, bare, k, out))

OpenRepositoryAct ==
    \E repoPath \in RepoPaths, absOk \in BOOLEAN :
        /\ IsRooted(repoPath) => absOk
        /\ LET r == OpenRepository(fs, repoPath, absOk)
           IN  /\ call' = [op |-> "OpenRepository", repoPath |-> repoPath,
                           absOk |-> absOk]
               /\ repo' = IF r.val # <<>> THEN r.val ELSE repo
               /\ trace' = r.trace
               /\ result' = [err |-> r.err, val |-> r.val]
               /\ UNCHANGED <<fs, proc, clock>>

CloneAct ==
    \E from \in Urls, to \in ToPaths, opts \in CloneRepoOptions :
    \E k \in MkdirReach(fs, PathDir(to)), out \in RunOutcomes(CloneTimeout(opts)) :
        Done([op |-> "Clone", from |-> from, to |-> to, opts |-> opts],
             Clone(fs, from, to, opts, k, out))

PullAct ==
    \E repoPath \in WorkPaths, opts \in PullRemoteOptions :
    \E out \in RunOutcomes(PullTimeout(opts)) :
        Done([op |-> "Pull", repoPath |-> repoPath, opts |-> opts],
             Pull(fs, repoPath, opts, out))

FetchAct ==
    \E repoPath \in WorkPaths, opts \in FetchRemoteOptions :
    \E out \in RunOutcomes(FetchTimeout(opts)) :
        Done([op |-> "Fetch", repoPath |-> repoPath, opts |-> opts],
             Fetch(fs, repoPath, opts, out))

RebaseAct ==
    \E repoPath \in WorkPaths, opts \in RebaseOptions :
    \E out \in RunOutcomes(NoTimeout) :
        Done([op |-> "Rebase", repoPath |-> repoPath, opts |-> opts],
             Rebase(fs, repoPath, opts, out))

PushAct ==
    \E repoPath \in WorkPaths, remote \in Remotes, branch \in Refs :
    \E opts \in PushOptions, out \in RunOutcomes(NoTimeout) :
        Done([op |-> "Push", repoPath |-> repoPath, remote |-> remote,
              branch |-> branch, opts |-> opts],
             Push(fs, repoPath, remote, branch, opts, out))

ResetHEADAct ==
    \E repoPath \in WorkPaths, hard \in BOOLEAN, revision \in Refs :
    \E out \in RunOutcomes(NoTimeout) :
        Done([op |-> "ResetHEAD", repoPath |-> repoPath, hard |-> hard,
              revision |-> revision],
             ResetHEAD(fs, repoPath, hard, revision, out))

CheckoutAct ==
    \E repoPath \in WorkPaths, version \in Refs :
    \E out \in RunOutcomes(NoTimeout) :
        Done([op |-> "Checkout", repoPath |-> repoPath, version |-> version],
             Checkout(fs, repoPath, version, out))

\* A lookup or a log parse on the open handle; the handle keeps its cache.
Looked(c, r) ==
    /\ call' = c
    /\ repo' = <<[repo[1] EXCEPT !.commitCache = r.cache]>>
    /\ trace' = r.trace
    /\ result' = [err |-> r.err, val |-> r.val]
    /\ UNCHANGED <<fs, proc, clock>>

GetCommitAct ==
    /\ repo # <<>>
    /\ \E id \in Ids, resolves \in BOOLEAN :
        Looked([op |-> "GetCommit", id |-> id],
               GetCommit(repo[1].commitCache, id, resolves))

ParseLogAct ==
    /\ repo # <<>>
    /\ \E logs \in Logs :
       \E failAt \in 0..Len(Split(logs, NL)) :
        Looked([op |-> "parsePrettyFormatLogToList", logs |-> logs],
               parsePrettyFormatLogToList(repo[1].commitCache, logs, failAt))

Next ==
    \/ InitRepositoryAct
    \/ CloneAct
    \/ PullAct
    \/ FetchAct
    \/ RebaseAct
    \/ PushAct
    \/ ResetHEADAct
    \/ CheckoutAct

Spec == Init /\ [][Next]_vars

NextRepo ==
    \/ InitRepositoryAct
    \/ OpenRepositoryAct
    \/ GetCommitAct
    \/ ParseLogAct

SpecRepo == Init /\ [][NextRepo]_vars

---------------------------------------------------------------------------
(* The runner step by step: a subprocess that is started, takes time and   *)
(* ends by itself or is killed when its timeout expires.  Clone, Pull and  *)
(* Fetch start it with the timeout they hand over.                         *)

\* The run in progress, or the last one.
CurRun == trace[Len(trace)]

\* A runner that lets the subprocess run on whatever its timeout.
CanTickAlways(timeout, clk) == TRUE

\* Time can pass for a running subprocess as long as its timeout (if it
\* has one) has not expired.
CanTick(timeout, clk) == timeout = NoTimeout \/ clk < timeout

\* The runner kills a subprocess whose timeout has expired.
CanExpire(timeout, clk) == timeout > 0 /\ clk >= timeout

\* Starting the run r.trace ends with: the subprocess cannot be started, or
\* it is running from now on.
Started(c, r, runnable) ==
    LET n == Len(r.trace)
        ran == n > 0 /\ r.trace[n].kind = "run"
    IN  /\ call' = c
        /\ fs' = r.fs
        /\ UNCHANGED repo
        /\ clock' = 0
        /\ IF ~ran
           THEN /\ proc' = "idle"
                /\ trace' = r.trace
                /\ result' = [err |-> r.err, val |-> <<>>]
           ELSE IF ~runnable
           THEN /\ proc' = "failed"
                /\ trace' = [r.trace EXCEPT ![n].out = "not runnable"]
                /\ result' = [err |-> "not runnable", val |-> <<>>]
           ELSE /\ proc' = "running"
                /\ trace' = [r.trace EXCEPT ![n].out = "running"]
                /\ result' = [err |-> "pending", val |-> <<>>]

\* The flags do not bear on the run's timing: the stepwise runner is
\* explored with --mirror and --bare off.
TimedCloneOptions == {o \in CloneRepoOptions : ~o.Mirror /\ ~o.Bare}

StartClone ==
    /\ proc # "running"
    /\ \E from \in Urls, to \in ToPaths, opts \in TimedCloneOptions :
       \E k \in MkdirReach(fs, PathDir(to)), runnable \in BOOLEAN :
        Started([op |-> "Clone", from |-> from, to |-> to, opts |-> opts],
                Clone(fs, from, to, opts, k, "ok"), runnable)

StartPull ==
    /\ proc # "running"
    /\ \E repoPath \in WorkPaths, opts \in PullRemoteOptions :
       \E runnable \in BOOLEAN :
        Started([op |-> "Pull", repoPath |-> repoPath, opts |-> opts],
                Pull(fs, repoPath, opts, "ok"), runnable)

StartFetch ==
    /\ proc # "running"
    /\ \E repoPath \in WorkPaths, opts \in FetchRemoteOptions :
       \E runnable \in BOOLEAN :
        Started([op |-> "Fetch", repoPath |-> repoPath, opts |-> opts],
                Fetch(fs, repoPath, opts, "ok"), runnable)

Tick ==
    /\ proc = "running"
    /\ clock < MaxClock
    /\ CanTick(CurRun.timeout, clock)
    /\ clock' = clock + 1
    /\ UNCHANGED <<fs, repo, call, trace, result, proc>>

\* The subprocess ends by itself.
Exit ==
    /\ proc = "running"
    /\ \E out \in {"ok", "exit status 1"} :
        /\ trace' = [trace EXCEPT ![Len(trace)].out = out]
        /\ result' = [err |-> RunErr(trace'[Len(trace)]), val |-> <<>>]
    /\ proc' = "exited"
    /\ UNCHANGED <<fs, repo, call, clock>>

\* The timeout expires: the subprocess is killed and the call fails.
Expire ==
    /\ proc = "running"
    /\ CanExpire(CurRun.timeout, clock)
    /\ trace' = [trace EXCEPT ![Len(trace)].out = "timeout"]
    /\ result' = [err |-> "timeout", val |-> <<>>]
    /\ proc' = "killed"
    /\ UNCHANGED <<fs, repo, call, clock>>

NextTimed ==
    \/ StartClone
    \/ StartPull
    \/ StartFetch
    \/ Tick
    \/ Exit
    \/ Expire

SpecTimed == Init /\ [][NextTimed]_vars

---------------------------------------------------------------------------
(* Properties *)

Runs(tr) == SelectSeq(tr, LAMBDA e : e.kind = "run")
Lookups(tr) == SelectSeq(tr, LAMBDA e : e.kind = "lookup")
Subprocesses(tr) == SelectSeq(tr, LAMBDA e : e.kind \in {"run", "resolve"})

\* C1 as stated: OpenRepository(p) returns a handle exactly when the
\* directory the absolute form of p names exists; otherwise it returns no
\* handle and the not-found error; it never runs the subprocess.
C1_OpenNotFoundOriginal ==
    call.op = "OpenRepository" =>
        LET dir == Resolve(call.repoPath)
        IN  /\ result.val # <<>> <=> dir \in fs
            /\ dir \notin fs => result.val = <<>> /\ result.err = ErrNotFound
            /\ Subprocesses(trace) = <<>>

\* C1 amended: when p can be made absolute, OpenRepository(p) returns a
\* handle (on the absolute path) exactly when the directory the absolute
\* form of p names exists, and otherwise no handle and the not-found
\* error; when p cannot be made absolute it returns no handle and that
\* failure's error; in no case does it run the subprocess.
C1_OpenIffDirectory ==
    call.op = "OpenRepository" =>
        LET dir == Resolve(call.repoPath)
        IN  /\ result.val # <<>> <=> (call.absOk /\ dir \in fs)
            /\ result.val # <<>> =>
                    /\ result.err = ErrNil
                    /\ IsRooted(result.val[1].Path)
                    /\ Components(result.val[1].Path) = dir
                    /\ repo = result.val
            /\ (call.absOk /\ dir \notin fs) =>
                    result.val = <<>> /\ result.err = ErrNotFound
            /\ ~call.absOk => result.val = <<>> /\ result.err = ErrGetwd
            /\ Subprocesses(trace) = <<>>

\* A relative path opened after its directory was created.
C1_Witness ==
    /\ call.op = "OpenRepository"
    /\ ~IsRooted(call.repoPath)
    /\ result.val # <<>>

\* C2: Clone, Pull and Fetch run the subprocess with no timeout (-1) when
\* the timeout of their options is zero or negative, and with exactly that
\* timeout when it is positive.
C2_TimeoutNormalized ==
    call.op \in {"Clone", "Pull", "Fetch"} =>
        \A i \in 1..Len(trace) :
            trace[i].kind = "run" =>
                trace[i].timeout =
                    IF call.opts.Timeout <= 0 THEN -1 ELSE call.opts.Timeout

C2_Witness ==
    /\ call.op = "Clone"
    /\ call.opts.Timeout = 0
    /\ Len(Runs(trace)) = 1
    /\ Runs(trace)[1].timeout = -1

\* C3: Clone creates the directory of 'to', with its missing ancestors,
\* before it starts the subprocess; when that creation fails Clone returns
\* its error and starts no subprocess.
C3_CloneCreatesParentFirst ==
    call.op = "Clone" =>
        /\ Len(trace) >= 1
        /\ trace[1].kind = "mkdirall"
        /\ trace[1].path = PathDir(call.to)
        /\ \A i \in 1..Len(trace) : trace[i].kind = "run" => i > 1 /\ trace[1].ok
        /\ Runs(trace) # <<>> => Ancestors(Resolve(PathDir(call.to))) \subseteq fs
        /\ ~trace[1].ok => Runs(trace) = <<>> /\ result.err = ErrMkdir

\* A clone into a/b/ whose directory a/b (with a) was created and which
\* then ran.
C3_Witness ==
    /\ call.op = "Clone"
    /\ call.to = <<"a", "/", "b", "/">>
    /\ Len(Runs(trace)) = 1
    /\ Cwd \o << <<"a">>, <<"b">> >> \in fs

\* C4: parsing an empty log output returns an empty list and no error, and
\* looks no commit up.
C4_EmptyLog ==
    (call.op = "parsePrettyFormatLogToList" /\ call.logs = <<>>) =>
        /\ result = [err |-> ErrNil, val |-> << <<>> >>]
        /\ trace = <<>>

C4_Witness ==
    /\ call.op = "parsePrettyFormatLogToList"
    /\ call.logs = <<>>
    /\ DOMAIN repo[1].commitCache # {}

\* C5: when a line of the log output does not resolve, the parse returns
\* that lookup's error and no list, however many lines resolved before.
C5_FailsAsAWhole ==
    call.op = "parsePrettyFormatLogToList" =>
        \A i \in 1..Len(trace) :
            (trace[i].kind = "resolve" /\ trace[i].out # "ok") =>
                result = [err |-> ErrNotExist, val |-> <<>>]

\* Two lines resolved, the third did not.
C5_Witness ==
    /\ call.op = "parsePrettyFormatLogToList"
    /\ Len(Lookups(trace)) = 3
    /\ trace[Len(trace)].kind = "resolve"
    /\ trace[Len(trace)].out # "ok"

CommitCacheOf(r) == IF r = <<>> THEN newObjectCache ELSE r[1].commitCache

\* The positions of the newlines of a log output, and its i-th segment:
\* what lies between the (i-1)-th newline and the i-th.
NewlinesOf(logs) == {i \in 1..Len(logs) : logs[i] = NL}
Boundary(logs, j) ==
    IF j = 0 THEN 0
    ELSE IF j > Cardinality(NewlinesOf(logs)) THEN Len(logs) + 1
    ELSE CHOOSE i \in NewlinesOf(logs) :
            Cardinality({x \in NewlinesOf(logs) : x <= i}) = j
Segment(logs, i) ==
    SubSeq(logs, Boundary(logs, i - 1) + 1, Boundary(logs, i) - 1)

\* How many subprocess runs a call made to resolve id.
ResolutionsOf(tr, id) ==
    Cardinality({i \in 1..Len(tr) : tr[i].kind = "resolve" /\ tr[i].id = id})

\* C6: a commit identifier the handle has resolved is answered from its
\* commit cache, in a lookup and in a log parse alike: with the commit
\* resolved before and without another subprocess run; an identifier not
\* yet resolved costs one run at most.  A handle just opened has empty
\* caches, and no operation takes an entry out of the cache.
C6_CachedCommits ==
    [][
        LET before == CommitCacheOf(repo)
            after == CommitCacheOf(repo')
            opened == call'.op = "OpenRepository" /\ result'.val # <<>>
        IN  /\ opened =>
                /\ DOMAIN repo'[1].commitCache = {}
                /\ DOMAIN repo'[1].tagCache = {}
            /\ ~opened =>
                \A id \in DOMAIN before :
                    id \in DOMAIN after /\ after[id] = before[id]
            /\ call'.op \in {"GetCommit", "parsePrettyFormatLogToList"} =>
                \A id \in Ids :
                    ResolutionsOf(trace', id)
                        <= (IF id \in DOMAIN before THEN 0 ELSE 1)
            /\ (call'.op = "GetCommit" /\ call'.id \in DOMAIN before) =>
                result' = [err |-> ErrNil, val |-> <<before[call'.id]>>]
            /\ (call'.op = "parsePrettyFormatLogToList" /\ result'.val # <<>>) =>
                \A i \in 1..Len(result'.val[1]) :
                    Segment(call'.logs, i) \in DOMAIN before =>
                        result'.val[1][i] = before[Segment(call'.logs, i)]
    ]_vars

\* A commit requested again and answered without a subprocess run.
C6_Witness ==
    /\ call.op = "GetCommit"
    /\ call.id = <<"a">>
    /\ Subprocesses(trace) = <<>>
    /\ result.val = <<Commit(<<"a">>)>>

Operations ==
    {"InitRepository", "Clone", "Pull", "Fetch", "Rebase", "Push",
     "ResetHEAD", "Checkout"}

\* C7 as stated: each of the eight operations runs the subprocess at most
\* once, succeeds exactly when that run succeeds, and otherwise returns
\* that run's error.
C7_OneRunOriginal ==
    call.op \in Operations =>
        LET runs == Runs(trace)
        IN  /\ Len(Subprocesses(trace)) <= 1
            /\ result.err = ErrNil <=> (Len(runs) = 1 /\ runs[1].out = "ok")
            /\ result.err # ErrNil => (Len(runs) = 1 /\ result.err = runs[1].out)

\* C7 amended: each of the eight operations runs the subprocess at most
\* once, succeeds exactly when that run succeeds, and otherwise returns
\* that run's error, except that a Clone whose directory creation fails
\* runs no subprocess and returns the creation's error.
C7_OneRun ==
    call.op \in Operations =>
        LET runs == Runs(trace)
            unmade == call.op = "Clone" /\ ~trace[1].ok
        IN  /\ Len(Subprocesses(trace)) <= 1
            /\ result.err = ErrNil <=> (Len(runs) = 1 /\ runs[1].out = "ok")
            /\ (result.err # ErrNil /\ ~unmade) =>
                    (Len(runs) = 1 /\ result.err = runs[1].out)
            /\ unmade => (runs = <<>> /\ result.err = ErrMkdir)

\* An InitRepository whose directory creation failed and whose subprocess
\* ran all the same, its error returned.
C7_Witness ==
    /\ call.op = "InitRepository"
    /\ ~trace[1].ok
    /\ Len(Runs(trace)) = 1
    /\ result.err = "exit status 1"

\* C8: a subprocess started with a positive timeout never runs past it;
\* when the timeout expires with the subprocess still running it is killed
\* and the call ends with the timeout error, which no other ending gives.
C8_TimeoutEndsTheRun ==
    call.op \in {"Clone", "Pull", "Fetch"} =>
        LET t == call.opts.Timeout
        IN  /\ (t > 0 /\ proc = "running") =>
                /\ clock <= t
                /\ clock = t => (ENABLED Expire /\ ~ENABLED Tick)
            /\ proc = "killed" <=> result.err = "timeout"
            /\ proc = "killed" => (t > 0 /\ clock = t /\ CurRun.out = "timeout")
            /\ proc = "failed" <=> result.err = "not runnable"
            /\ proc = "exited" <=> result.err \in {ErrNil, "exit status 1"}

\* A pull with timeout 2 killed at time 2.
C8_Witness ==
    /\ call.op = "Pull"
    /\ call.opts.Timeout = 2
    /\ proc = "killed"
    /\ clock = 2

Flag(on, flag) == IF on THEN <<flag>> ELSE <<>>

\* The argument list the claim gives for a call.
ExpectedArgs(c) ==
    CASE c.op = "InitRepository" -> <<SInit>> \o Flag(c.bare, FBare)
      [] c.op = "Clone" ->
            <<SClone>> \o Flag(c.opts.Mirror, FMirror) \o Flag(c.opts.Bare, FBare)
                \o Flag(c.opts.Quiet, FQuiet) \o <<c.from, c.to>>
      [] c.op = "Pull" -> <<SPull>> \o Flag(c.opts.All, FAll)
      [] c.op = "Fetch" -> <<SFetch>> \o Flag(c.opts.Prune, FPrune)
      [] c.op = "Rebase" ->
            <<SRebase>> \o (IF c.opts.Branch # <<>> THEN <<c.opts.Branch>> ELSE <<>>)
      [] c.op = "Push" ->
            <<SPush>> \o Flag(c.opts.Force, FForce) \o <<c.remote, c.branch>>
      [] c.op = "ResetHEAD" -> <<SReset>> \o Flag(c.hard, FHard) \o <<c.revision>>
      [] c.op = "Checkout" -> <<SCheckout, c.version>>

\* C9: the argument list handed to the subprocess is the subcommand, then
\* each flag whose option is true, in the fixed order, then the positional
\* arguments as given.
C9_ArgumentList ==
    call.op \in Operations =>
        \A i \in 1..Len(trace) :
            trace[i].kind = "run" => trace[i].args = ExpectedArgs(call)

\* A clone with all three flags.
C9_Witness ==
    /\ call.op = "Clone"
    /\ call.opts.Mirror /\ call.opts.Bare /\ call.opts.Quiet
    /\ Len(Runs(trace)) = 1
    /\ Len(Runs(trace)[1].args) = 6

\* C10: a non-empty log output is looked up segment by segment in input
\* order, an empty segment as the empty identifier; the parse stops at the
\* first segment that does not resolve; on success the list has one commit
\* per segment (newlines plus one), the i-th resolved from the i-th segment.
C10_SegmentsInOrder ==
    (call.op = "parsePrettyFormatLogToList" /\ call.logs # <<>>) =>
        LET looks == Lookups(trace)
            n == Cardinality(NewlinesOf(call.logs)) + 1
        IN  /\ 1 <= Len(looks) /\ Len(looks) <= n
            /\ \A i \in 1..Len(looks) : looks[i].id = Segment(call.logs, i)
            /\ \A i \in 1..Len(trace) :
                    (trace[i].kind = "resolve" /\ trace[i].out # "ok") =>
                        (i = Len(trace) /\ result.err # ErrNil)
            /\ result.err # ErrNil =>
                    /\ trace[Len(trace)].kind = "resolve"
                    /\ trace[Len(trace)].out # "ok"
            /\ result.err = ErrNil =>
                    /\ Len(looks) = n
                    /\ result.val = <<[i \in 1..n |-> Commit(Segment(call.logs, i))]>>

\* A log ending in a newline: its last segment is the empty identifier.
C10_Witness ==
    /\ call.op = "parsePrettyFormatLogToList"
    /\ call.logs = <<"a", "a", NL>>
    /\ result.err = ErrNil
    /\ Len(result.val[1]) = 2
    /\ result.val[1][2] = Commit(<<>>)

====
